---- MODULE Spec2Model ----
(***************************************************************************)
(* Longstaff-Schwartz least-squares Monte Carlo pricing, as implemented in *)
(* smf_group19_code_longstaff_schwartz_simulation.ipynb:                   *)
(*   - the two path simulators simulate_gbm and simulate_gbm_multi, which  *)
(*     share numpy's process-wide random stream (specification SpecSim);   *)
(*   - the backward training engine longstaff_schwartz_train and the       *)
(*     forward evaluation engine longstaff_schwartz_test /                 *)
(*     longstaff_schwartz_evaluate, one action per loop iteration          *)
(*     (specification SpecLS).                                             *)
(* Real numbers are exact rationals <<numerator, denominator>>.            *)
(***************************************************************************)
EXTENDS Integers, Sequences, FiniteSets, TLC

VARIABLES rng, last, pc, call, t, V, coefficients, step, fitLog, result

vars == <<rng, last, pc, call, t, V, coefficients, step, fitLog, result>>

simVars == <<rng, last>>

lsVars == <<pc, call, t, V, coefficients, step, fitLog, result>>

(***************************************************************************)
(* Bounds of the model.                                                    *)
(***************************************************************************)
\* largest number of variates drawn from the stream since it was last seeded
MaxDraws == 12

\* largest seed a caller supplies
MaxSeed == 1

\* largest date count M / path count I given to simulate_gbm
MaxSimCount == 2

\* largest date count M of a training or test matrix
MaxDates == 3

\* largest number of paths of a training matrix
MaxPaths == 2

(***************************************************************************)
(* Exact rational arithmetic.                                              *)
(***************************************************************************)
Abs(x) == IF x < 0 THEN -x ELSE x

RECURSIVE Gcd(_, _)
Gcd(a, b) == IF b = 0 THEN a ELSE Gcd(b, a % b)

\* the rational n/d (d # 0) in lowest terms with a positive denominator
Rat(n, d) ==
    LET g == Gcd(Abs(n), Abs(d))
        s == IF d < 0 THEN -1 ELSE 1
    IN  <<(s * n) \div g, (s * d) \div g>>

RInt(n) == <<n, 1>>

RAdd(a, b) == Rat(a[1] * b[2] + b[1] * a[2], a[2] * b[2])

RMul(a, b) == Rat(a[1] * b[1], a[2] * b[2])

RDiv(a, b) == Rat(a[1] * b[2], a[2] * b[1])

RLess(a, b) == a[1] * b[2] < b[1] * a[2]

RECURSIVE Pow2(_)
Pow2(e) == IF e = 0 THEN 1 ELSE 2 * Pow2(e - 1)

RECURSIVE SumSeq(_)
SumSeq(s) == IF s = <<>> THEN 0 ELSE Head(s) + SumSeq(Tail(s))

\* Python's 0-based indexing seq[k]
At0FromEnd(seq, k) == seq[Len(seq) - k]

At0(seq, k) == seq[k + 1]

(***************************************************************************)
(* numpy's process-wide random stream (np.random.seed, standard_normal,    *)
(* randn).  The state of the generator is the seed it was last seeded with *)
(* (NoSeed: the entropy of the operating system, as at process start) and  *)
(* the number of variates drawn since: a draw is a function of the state   *)
(* and moves it to a state the stream has not been in since the seeding.   *)
(* The variates are tabulated as non-zero integers of either sign, no two  *)
(* states of the stream giving the same variate or opposite variates: two  *)
(* draws differ whatever their seeds and positions, and a change of sign   *)
(* of the volatility is never made up for by the variate.                  *)
(***************************************************************************)
\* "seed=None": no seed supplied (Python seeds are >= 0)
NoSeed == -1

Seeds == {NoSeed} \cup (0 .. MaxSeed)

RngStates == [seed : Seeds, pos : 0 .. MaxDraws]

\* np.random.seed(seed): the state is a function of the seed alone
SeedState(seed) == [seed |-> seed, pos |-> 0]

Advance(s) == [s EXCEPT !.pos = @ + 1]

RECURSIVE StreamAt(_, _)
\* the stream state after k draws from state s
StreamAt(s, k) == IF k = 0 THEN s ELSE StreamAt(Advance(s), k - 1)

\* the Thue-Morse word: the parity of the binary digit sum of n
RECURSIVE ThueMorse(_)
ThueMorse(n) == IF n = 0 THEN 0 ELSE ((n % 2) + ThueMorse(n \div 2)) % 2

\* the rank of a stream state among the states of all seeds
StateRank(s) == s.pos * (MaxSeed + 2) + (s.seed + 1)

\* the standard-normal variate drawn in state s: its magnitude is proper to the
\* state, its sign follows the Thue-Morse word
Normal(s) ==
    IF ThueMorse(StateRank(s)) = 0 THEN StateRank(s) + 1 ELSE -(StateRank(s) + 1)

\* the largest magnitude of a variate a call can draw: a call starts at a position
\* of at most MaxDraws and draws at most MaxDraws variates
MaxVariate == (2 * MaxDraws + 1) * (MaxSeed + 2)

\* the k-th (0-based) variate of a block drawn from state s
Draw(s, k) == Normal(StreamAt(s, k))

\* np.exp(drift + vol * z): the lognormal step factor, a positive increasing
\* function of sigma * z, tabulated over the whole numbers -MaxVariate .. MaxVariate
\* (volatilities are -1 or 1) by the integers 1 .. 2 * MaxVariate + 1
StepFactor(sigma, z) == MaxVariate + 1 + sigma * z

(***************************************************************************)
(* Arguments of the simulators.  A count (M, I, num_paths) carries its     *)
(* Python type: isinstance(param, int) is part of simulate_gbm's checks.   *)
(***************************************************************************)
IntCount(v) == [isint |-> TRUE, val |-> v]

FloatCount(v) == [isint |-> FALSE, val |-> v]

SimCounts == {IntCount(v) : v \in 0 .. MaxSimCount} \cup {FloatCount(MaxSimCount)}

SimPrices == {0, 8}

SimSigmas == {-1, 1}

SimMaturities == {0, 2}

GbmArgs ==
    [S0 : SimPrices, sigma : SimSigmas, T : SimMaturities,
     M : SimCounts, I : SimCounts, seed : Seeds]

MultiDimensions == {0, 1, 2}

MultiSigmas == {<<1>>, <<-1>>, <<1, 1>>}

MultiPrices == {<<8>>, <<0>>, <<8, 8>>}

\* dividend_rates: a float scalar, or an array of the given length
MultiDividends == {[scalar |-> TRUE, len |-> 0], [scalar |-> FALSE, len |-> 1]}

MultiHorizons == {0, 3}

MultiSteps == {1, 2}

MultiCounts == {IntCount(0), IntCount(1), FloatCount(1)}

MultiRates == {0}

MultiArgs ==
    [dimension : MultiDimensions, risk_free_rate : MultiRates,
     dividend_rates : MultiDividends, sigma : MultiSigmas,
     initial_prices : MultiPrices, time_horizon : MultiHorizons,
     time_step : MultiSteps, num_paths : MultiCounts, seed : Seeds]

\* what a call that raised leaves: no path matrix
Raised(kind, s) == [outcome |-> kind, paths |-> <<>>, dt |-> RInt(0), rng |-> s]

\* the record of the last call: its arguments and what it gave; of a call that a
\* parameter check rejected with ValueError nothing remains but the error
CallRecord(fn, a, res) ==
    IF res.outcome = "ValueError"
    THEN [fn |-> fn, outcome |-> res.outcome, paths |-> res.paths, dt |-> res.dt]
    ELSE [fn |-> fn, args |-> a, outcome |-> res.outcome, paths |-> res.paths,
          dt |-> res.dt]

(***************************************************************************)
(* simulate_gbm                                                            *)
(***************************************************************************)
\* "if seed is not None: np.random.seed(seed)"
GbmSeeded(seed, s) == IF seed # NoSeed THEN SeedState(seed) ELSE s

\* paths[0] = S0; paths[t] = paths[t-1] * exp(drift + vol * rand_numbers[t-1]),
\* rand_numbers = standard_normal((M, I)) filled in row-major order.
\* Row t of the matrix is element t+1 of the sequence.
RECURSIVE GbmRows(_, _, _, _, _)
GbmRows(S0, sigma, tt, I, s) ==
    IF tt = 0
    THEN <<[i \in 1 .. I |-> S0]>>
    ELSE LET prev == GbmRows(S0, sigma, tt - 1, I, s)
         IN  Append(prev,
                    [i \in 1 .. I |->
                        prev[tt][i] * StepFactor(sigma, Draw(s, (tt - 1) * I + (i - 1)))])

\* the whole call on stream state s: outcome, matrix, step used, stream after
GbmCall(a, s) ==
    IF a.S0 <= 0 \/ a.T <= 0 \/ a.sigma < 0
    THEN Raised("ValueError", s)
    ELSE IF ~(a.M.isint /\ a.M.val > 0 /\ a.I.isint /\ a.I.val > 0)
    THEN Raised("ValueError", s)
    ELSE LET s1 == GbmSeeded(a.seed, s)
         IN  [outcome |-> "returned",
              paths   |-> GbmRows(a.S0, a.sigma, a.M.val, a.I.val, s1),
              dt      |-> Rat(a.T, a.M.val),
              rng     |-> StreamAt(s1, a.M.val * a.I.val)]

SimulateGbm ==
    /\ \E a \in GbmArgs :
          LET res == GbmCall(a, rng)
          IN  /\ last' = CallRecord("simulate_gbm", a, res)
              /\ rng' = res.rng
              /\ res.rng.pos <= MaxDraws
    /\ UNCHANGED lsVars

(***************************************************************************)
(* simulate_gbm_multi                                                      *)
(***************************************************************************)
\* "np.random.seed(seed) if seed else None"
MultiSeeded(seed, s) == IF seed # NoSeed /\ seed # 0 THEN SeedState(seed) ELSE s

\* n_steps = int(time_horizon / time_step), both positive
NSteps(time_horizon, time_step) == time_horizon \div time_step

\* paths[:, :, 0] = initial_prices; per step one randn(num_paths, dimension)
\* block, row-major; paths[p][a][k+1] is the price of asset a on path p at step k
RECURSIVE MultiPath(_, _, _, _, _, _, _)
MultiPath(a, P, p, d, k, s, dummy) ==
    IF k = 0
    THEN <<a.initial_prices[d]>>
    ELSE LET prev == MultiPath(a, P, p, d, k - 1, s, dummy)
             idx  == (k - 1) * (P * a.dimension) + (p - 1) * a.dimension + (d - 1)
         IN  Append(prev, prev[k] * StepFactor(a.sigma[d], Draw(s, idx)))

MultiCall(a, s) ==
    IF a.dimension <= 0
    THEN Raised("ValueError", s)
    ELSE IF Len(a.sigma) # a.dimension \/ Len(a.initial_prices) # a.dimension
    THEN Raised("ValueError", s)
    ELSE IF a.time_horizon <= 0 \/ a.time_step <= 0
    THEN Raised("ValueError", s)
    ELSE IF a.num_paths.val <= 0
    THEN Raised("ValueError", s)
    ELSE IF a.risk_free_rate < 0
    THEN Raised("ValueError", s)
    ELSE IF ~a.dividend_rates.scalar /\ a.dividend_rates.len # a.dimension
    THEN Raised("ValueError", s)
    ELSE LET s1 == MultiSeeded(a.seed, s)
             n  == NSteps(a.time_horizon, a.time_step)
             P  == a.num_paths.val
         IN  IF ~a.num_paths.isint
             THEN \* np.empty((num_paths, ...)) refuses a float extent
                  Raised("TypeError", s1)
             ELSE [outcome |-> "returned",
                   paths   |-> [p \in 1 .. P |->
                                  [d \in 1 .. a.dimension |->
                                      MultiPath(a, P, p, d, n, s1, 0)]],
                   dt      |-> RInt(a.time_step),
                   rng     |-> StreamAt(s1, n * P * a.dimension)]

SimulateGbmMulti ==
    /\ \E a \in MultiArgs :
          LET res == MultiCall(a, rng)
          IN  /\ last' = CallRecord("simulate_gbm_multi", a, res)
              /\ rng' = res.rng
              /\ res.rng.pos <= MaxDraws
    /\ UNCHANGED lsVars

(***************************************************************************)
(* numpy helpers used by the training and evaluation engines.              *)
(***************************************************************************)
\* "no regression at this date": coefficients.append(None)
NoFit == <<>>

RECURSIVE RSum(_)
RSum(s) == IF s = <<>> THEN RInt(0) ELSE RAdd(Head(s), RSum(Tail(s)))

\* vec[mask]: the entries of vec where mask holds, in order
RECURSIVE Compress(_, _)
Compress(vec, mask) ==
    IF vec = <<>>
    THEN <<>>
    ELSE IF Head(mask)
         THEN <<Head(vec)>> \o Compress(Tail(vec), Tail(mask))
         ELSE Compress(Tail(vec), Tail(mask))

\* slip: at-the-money paths taken as in-the-money
ItmMaskAtOrAbove(current_prices, K) ==
    [i \in 1 .. Len(current_prices) |-> current_prices[i] >= K]

\* "current_prices > K"
ItmMask(current_prices, K) == [i \in 1 .. Len(current_prices) |-> current_prices[i] > K]

\* "V[in_the_money] * discount"
Discounted(held, mask, discount) ==
    LET sel == Compress(held, mask)
    IN  [i \in 1 .. Len(sel) |-> RMul(RInt(sel[i]), discount)]

\* np.polyfit(X, Y, degree) for degree 0 and 1, highest power first: the least-squares
\* polynomial; when all X coincide a degree-1 fit is rank deficient and lstsq returns
\* the minimum-norm solution in polyfit's column-scaled coordinates, slope*x = intercept
PolyFit(X, Y, degree) ==
    LET n    == Len(X)
        Sx   == SumSeq(X)
        Sxx  == SumSeq([i \in 1 .. n |-> X[i] * X[i]])
        Sy   == RSum(Y)
        Sxy  == RSum([i \in 1 .. n |-> RMul(RInt(X[i]), Y[i])])
        mean == RDiv(Sy, RInt(n))
        D    == n * Sxx - Sx * Sx
    IN  IF degree = 0
        THEN <<mean>>
        ELSE IF D = 0
        THEN <<RDiv(mean, RInt(2 * X[1])), RDiv(mean, RInt(2))>>
        ELSE <<RDiv(RAdd(RMul(RInt(n), Sxy), RMul(RInt(-Sx), Sy)), RInt(D)),
               RDiv(RAdd(RMul(RInt(Sxx), Sy), RMul(RInt(-Sx), Sxy)), RInt(D))>>

\* np.polyval(coeff, x) by Horner's rule
RECURSIVE PolyVal(_, _)
PolyVal(coeff, x) ==
    IF coeff = <<>>
    THEN RInt(0)
    ELSE RAdd(RMul(PolyVal(SubSeq(coeff, 1, Len(coeff) - 1), x), RInt(x)),
              coeff[Len(coeff)])

Continuation(coeff, current_prices) ==
    [i \in 1 .. Len(current_prices) |-> PolyVal(coeff, current_prices[i])]

\* slip: a tie exercises
ExerciseWinsOrTies(exercise, continuation) == ~RLess(RInt(exercise), continuation)

\* "exercise > continuation"
ExerciseWins(exercise, continuation) == RLess(continuation, RInt(exercise))

\* np.where(exercise > continuation, exercise, V)
Where(exercise, continuation, held) ==
    [i \in 1 .. Len(held) |->
        IF ExerciseWins(exercise[i], continuation[i]) THEN exercise[i] ELSE held[i]]

\* slip: the backward-built list is returned as it is
NotReversed(seq) == seq

\* coefficients[::-1]
RECURSIVE Reversed(_)
Reversed(seq) == IF seq = <<>> THEN <<>> ELSE Append(Reversed(Tail(seq)), Head(seq))

\* dt = T / M
TrainDt(T, M) == Rat(T, M)

\* np.exp(-r * dt), tabulated in the unit where exp(-1) = 1/2, for whole r * dt
Discount(r, dt) == Rat(1, Pow2(r * dt[1]))

Max(a, b) == IF a > b THEN a ELSE b

\* slip: prices - K, without the floor at 0
CallPayoffNoFloor(prices, K) == [i \in 1 .. Len(prices) |-> prices[i] - K]

\* np.maximum(prices - K, 0)
CallPayoff(prices, K) == [i \in 1 .. Len(prices) |-> Max(prices[i] - K, 0)]

\* np.amax(underlying_prices, axis=1), rows being non-empty
RECURSIVE AMax(_)
AMax(row) == IF Len(row) = 1 THEN row[1] ELSE Max(Head(row), AMax(Tail(row)))

\* bermudan_max_call_payoff(underlying_prices, strike_price), (paths, assets) -> (paths,)
BermudanMaxCallPayoff(underlying_prices, strike_price) ==
    [i \in 1 .. Len(underlying_prices) |->
        Max(AMax(underlying_prices[i]) - strike_price, 0)]

\* slip: a skipped date records nothing
RecordNoFitSkipped(coefs) == coefs

\* "coefficients.append(None)"
RecordNoFit(coefs) == Append(coefs, NoFit)

\* reversed(range(1, M)): the first date of the loop, and its exhaustion
LoopStart(M) == M - 1

LoopDone(tt) == tt < 1

\* slip: only a series that is too short is refused
LengthMismatchShortOnly(coefs, M) == Len(coefs) < M - 1

\* "len(coefficients) != M - 1"
LengthMismatch(coefs, M) == Len(coefs) # M - 1

(***************************************************************************)
(* Inputs of the engines.  Training matrices are the paths of a recombining *)
(* price lattice that starts at LatticeS0 and moves one unit per date.      *)
(***************************************************************************)
LatticeS0 == 6

Strikes == {0, 5}

Degrees == {-1, 0, 1}

Rates == {0, 1}

Moves == {-1, 1}

RECURSIVE Walk(_, _, _)
\* the price of path i after k moves
Walk(mv, i, k) == IF k = 0 THEN LatticeS0 ELSE Walk(mv, i, k - 1) + mv[k][i]

\* S_paths of shape (M+1, I): S[t+1][i] is the price of path i at date t
Matrix1D(M, I, mv) == [tt \in 1 .. (M + 1) |-> [i \in 1 .. I |-> Walk(mv, i, tt - 1)]]

\* price_paths of shape (num_paths, total_steps): P[i][t+1]
MatrixMulti(M, I, mv) == [i \in 1 .. I |-> [tt \in 1 .. (M + 1) |-> Walk(mv, i, tt - 1)]]

\* a coefficient series handed to the evaluation engine by a caller
CoefEntries == {NoFit, <<RInt(1)>>, <<RInt(1), RInt(-6)>>}

RECURSIVE SeriesOfLen(_)
SeriesOfLen(n) ==
    IF n = 0
    THEN {<<>>}
    ELSE {Append(cs, e) : cs \in SeriesOfLen(n - 1), e \in CoefEntries}

CoefSeries == UNION {SeriesOfLen(n) : n \in 0 .. MaxDates}

(***************************************************************************)
(* longstaff_schwartz_train, single asset: S_paths_train[t] is a row        *)
(***************************************************************************)
Train1DBegin ==
    /\ pc = "idle"
    /\ \E M \in 1 .. MaxDates, I \in 1 .. MaxPaths, K \in Strikes,
          r \in Rates, degree \in Degrees :
         \E mv \in [1 .. M -> [1 .. I -> Moves]], T \in {0, M} :
            /\ call' = [fn |-> "longstaff_schwartz_train", S |-> Matrix1D(M, I, mv),
                        K |-> K, r |-> r, T |-> T, degree |-> degree]
            /\ IF K <= 0 \/ T <= 0 \/ degree < 0
               THEN /\ pc' = "raised"
                    /\ result' = "ValueError"
                    /\ UNCHANGED <<t, V>>
               ELSE /\ pc' = "train"
                    /\ t' = LoopStart(M)
                    /\ V' = CallPayoff(Matrix1D(M, I, mv)[M + 1], K)
                    /\ UNCHANGED result
    /\ coefficients' = <<>>
    /\ fitLog' = <<>>
    /\ UNCHANGED <<step, simVars>>

\* one iteration of "for t in reversed(range(1, M))"
Train1DStep ==
    /\ pc = "train"
    /\ call.fn = "longstaff_schwartz_train"
    /\ ~LoopDone(t)
    /\ LET M              == Len(call.S) - 1
           discount       == Discount(call.r, TrainDt(call.T, M))
           current_prices == call.S[t + 1]
           in_the_money   == ItmMask(current_prices, call.K)
           X              == Compress(current_prices, in_the_money)
           Y              == Discounted(V, in_the_money, discount)
           coeff          == PolyFit(X, Y, call.degree)
           continuation   == Continuation(coeff, current_prices)
           exercise       == CallPayoff(current_prices, call.K)
       IN  IF Len(X) = 0
           THEN /\ coefficients' = RecordNoFit(coefficients)
                /\ fitLog' = Append(fitLog, [date |-> t, entry |-> NoFit,
                                                 held |-> V, value |-> V])
                /\ step' = [kind |-> "train", date |-> t, entry |-> NoFit,
                            exercise |-> <<>>, continuation |-> <<>>, held |-> V]
                /\ V' = V
           ELSE /\ coefficients' = Append(coefficients, coeff)
                /\ fitLog' = Append(fitLog, [date |-> t, entry |-> coeff, held |-> V,
                                                 value |-> Where(exercise, continuation, V)])
                /\ step' = [kind |-> "train", date |-> t, entry |-> coeff,
                            exercise |-> exercise, continuation |-> continuation,
                            held |-> V]
                /\ V' = Where(exercise, continuation, V)
    /\ t' = t - 1
    /\ UNCHANGED <<pc, call, result, simVars>>

\* "return coefficients[::-1]"
Train1DReturn ==
    /\ pc = "train"
    /\ call.fn = "longstaff_schwartz_train"
    /\ LoopDone(t)
    /\ result' = Reversed(coefficients)
    /\ pc' = "trained"
    /\ UNCHANGED <<call, t, V, coefficients, step, fitLog, simVars>>

(***************************************************************************)
(* longstaff_schwartz_test, single asset                                    *)
(***************************************************************************)
\* the calls a caller can make: on the training matrix with the series train
\* returned, or on a one-path test matrix with a series of its own
Test1DInputs ==
    IF pc = "trained"
    THEN {[S |-> call.S, K |-> call.K, r |-> call.r, T |-> call.T,
           coefficients |-> result, trained |-> TRUE]}
    ELSE UNION {{[S |-> Matrix1D(M, 1, mv), K |-> K, r |-> r, T |-> M,
                  coefficients |-> cs, trained |-> FALSE] :
                    mv \in [1 .. M -> [1 .. 1 -> Moves]], K \in Strikes \ {0},
                    r \in Rates, cs \in CoefSeries} :
                M \in 1 .. MaxDates}

Test1DBegin ==
    /\ \/ pc = "idle"
       \/ pc = "trained" /\ call.fn = "longstaff_schwartz_train"
    /\ \E in \in Test1DInputs :
         LET M == Len(in.S) - 1
         IN  /\ call' = [fn |-> "longstaff_schwartz_test"] @@ in
             /\ IF LengthMismatch(in.coefficients, M)
                THEN /\ pc' = "raised"
                     /\ result' = "ValueError"
                     /\ UNCHANGED <<t, V>>
                ELSE /\ pc' = "evaluate"
                     /\ t' = LoopStart(M)
                     /\ V' = CallPayoff(in.S[M + 1], in.K)
                     /\ UNCHANGED result
    /\ UNCHANGED <<coefficients, step, fitLog, simVars>>

Test1DStep ==
    /\ pc = "evaluate"
    /\ call.fn = "longstaff_schwartz_test"
    /\ ~LoopDone(t)
    /\ LET coeff          == At0(call.coefficients, t - 1)
           current_prices == call.S[t + 1]
           continuation   == Continuation(coeff, current_prices)
           exercise       == CallPayoff(current_prices, call.K)
       IN  IF coeff = NoFit
           THEN /\ step' = [kind |-> "evaluate", date |-> t, entry |-> NoFit,
                            exercise |-> <<>>, continuation |-> <<>>, held |-> V]
                /\ V' = V
           ELSE /\ step' = [kind |-> "evaluate", date |-> t, entry |-> coeff,
                            exercise |-> exercise, continuation |-> continuation,
                            held |-> V]
                /\ V' = Where(exercise, continuation, V)
    /\ t' = t - 1
    /\ UNCHANGED <<pc, call, coefficients, fitLog, result, simVars>>

\* "return np.mean(V) * np.exp(-r * dt)"
Test1DReturn ==
    /\ pc = "evaluate"
    /\ call.fn = "longstaff_schwartz_test"
    /\ LoopDone(t)
    /\ LET M == Len(call.S) - 1
       IN  result' = RMul(Rat(SumSeq(V), Len(V)), Discount(call.r, TrainDt(call.T, M)))
    /\ pc' = "priced"
    /\ UNCHANGED <<call, t, V, coefficients, step, fitLog, simVars>>

(***************************************************************************)
(* longstaff_schwartz_train of the multi-asset cell: price_paths[:, step]   *)
(* is a column                                                              *)
(***************************************************************************)
\* price_paths[:, step]
Column(price_paths, k) == [i \in 1 .. Len(price_paths) |-> price_paths[i][k + 1]]

\* price_paths[:, -1:], of shape (paths, 1)
LastColumn2D(price_paths) ==
    [i \in 1 .. Len(price_paths) |-> <<price_paths[i][Len(price_paths[i])]>>]

\* current_prices[:, None], of shape (paths, 1)
AddAxis(vec) == [i \in 1 .. Len(vec) |-> <<vec[i]>>]

TrainMultiBegin ==
    /\ pc = "idle"
    /\ \E M \in 1 .. MaxDates, I \in 1 .. MaxPaths, K \in Strikes,
          r \in Rates, degree \in Degrees :
         \E mv \in [1 .. M -> [1 .. I -> Moves]], T \in {0, M} :
            /\ call' = [fn |-> "longstaff_schwartz_train_multi",
                        S |-> MatrixMulti(M, I, mv),
                        K |-> K, r |-> r, T |-> T, degree |-> degree]
            /\ IF K <= 0 \/ T <= 0 \/ degree < 0
               THEN /\ pc' = "raised"
                    /\ result' = "ValueError"
                    /\ UNCHANGED <<t, V>>
               ELSE /\ pc' = "train"
                    /\ t' = LoopStart(M)
                    /\ V' = BermudanMaxCallPayoff(LastColumn2D(MatrixMulti(M, I, mv)), K)
                    /\ UNCHANGED result
    /\ coefficients' = <<>>
    /\ fitLog' = <<>>
    /\ UNCHANGED <<step, simVars>>

\* one iteration of "for step in reversed(range(1, exercise_steps))"
TrainMultiStep ==
    /\ pc = "train"
    /\ call.fn = "longstaff_schwartz_train_multi"
    /\ ~LoopDone(t)
    /\ LET exercise_steps  == Len(call.S[1]) - 1
           discount_factor == Discount(call.r, TrainDt(call.T, exercise_steps))
           current_prices  == Column(call.S, t)
           itm_mask        == ItmMask(current_prices, call.K)
           X               == Compress(current_prices, itm_mask)
           Y               == Discounted(V, itm_mask, discount_factor)
           coeff           == PolyFit(X, Y, call.degree)
           continuation    == Continuation(coeff, current_prices)
           exercise        == BermudanMaxCallPayoff(AddAxis(current_prices), call.K)
       IN  IF Len(X) = 0
           THEN /\ coefficients' = RecordNoFit(coefficients)
                /\ fitLog' = Append(fitLog, [date |-> t, entry |-> NoFit,
                                                 held |-> V, value |-> V])
                /\ step' = [kind |-> "train", date |-> t, entry |-> NoFit,
                            exercise |-> <<>>, continuation |-> <<>>, held |-> V]
                /\ V' = V
           ELSE /\ coefficients' = Append(coefficients, coeff)
                /\ fitLog' = Append(fitLog, [date |-> t, entry |-> coeff, held |-> V,
                                                 value |-> Where(exercise, continuation, V)])
                /\ step' = [kind |-> "train", date |-> t, entry |-> coeff,
                            exercise |-> exercise, continuation |-> continuation,
                            held |-> V]
                /\ V' = Where(exercise, continuation, V)
    /\ t' = t - 1
    /\ UNCHANGED <<pc, call, result, simVars>>

TrainMultiReturn ==
    /\ pc = "train"
    /\ call.fn = "longstaff_schwartz_train_multi"
    /\ LoopDone(t)
    /\ result' = Reversed(coefficients)
    /\ pc' = "trained"
    /\ UNCHANGED <<call, t, V, coefficients, step, fitLog, simVars>>

(***************************************************************************)
(* longstaff_schwartz_evaluate                                              *)
(***************************************************************************)
EvaluateInputs ==
    IF pc = "trained"
    THEN {[S |-> call.S, K |-> call.K, r |-> call.r, T |-> call.T,
           coefficients |-> result, trained |-> TRUE]}
    ELSE UNION {{[S |-> MatrixMulti(M, 1, mv), K |-> K, r |-> r, T |-> M,
                  coefficients |-> cs, trained |-> FALSE] :
                    mv \in [1 .. M -> [1 .. 1 -> Moves]], K \in Strikes \ {0},
                    r \in Rates, cs \in CoefSeries} :
                M \in 1 .. MaxDates}

EvaluateBegin ==
    /\ \/ pc = "idle"
       \/ pc = "trained" /\ call.fn = "longstaff_schwartz_train_multi"
    /\ \E in \in EvaluateInputs :
         LET exercise_steps == Len(in.S[1]) - 1
         IN  /\ call' = [fn |-> "longstaff_schwartz_evaluate"] @@ in
             /\ IF LengthMismatch(in.coefficients, exercise_steps)
                THEN /\ pc' = "raised"
                     /\ result' = "ValueError"
                     /\ UNCHANGED <<t, V>>
                ELSE /\ pc' = "evaluate"
                     /\ t' = LoopStart(exercise_steps)
                     /\ V' = BermudanMaxCallPayoff(LastColumn2D(in.S), in.K)
                     /\ UNCHANGED result
    /\ UNCHANGED <<coefficients, step, fitLog, simVars>>

EvaluateStep ==
    /\ pc = "evaluate"
    /\ call.fn = "longstaff_schwartz_evaluate"
    /\ ~LoopDone(t)
    /\ LET coeff          == At0(call.coefficients, t - 1)
           current_prices == Column(call.S, t)
           continuation   == Continuation(coeff, current_prices)
           exercise       == BermudanMaxCallPayoff(AddAxis(current_prices), call.K)
       IN  IF coeff = NoFit
           THEN /\ step' = [kind |-> "evaluate", date |-> t, entry |-> NoFit,
                            exercise |-> <<>>, continuation |-> <<>>, held |-> V]
                /\ V' = V
           ELSE /\ step' = [kind |-> "evaluate", date |-> t, entry |-> coeff,
                            exercise |-> exercise, continuation |-> continuation,
                            held |-> V]
                /\ V' = Where(exercise, continuation, V)
    /\ t' = t - 1
    /\ UNCHANGED <<pc, call, coefficients, fitLog, result, simVars>>

EvaluateReturn ==
    /\ pc = "evaluate"
    /\ call.fn = "longstaff_schwartz_evaluate"
    /\ LoopDone(t)
    /\ LET exercise_steps == Len(call.S[1]) - 1
       IN  result' = RMul(Rat(SumSeq(V), Len(V)),
                          Discount(call.r, TrainDt(call.T, exercise_steps)))
    /\ pc' = "priced"
    /\ UNCHANGED <<call, t, V, coefficients, step, fitLog, simVars>>

\* the process starts with the stream seeded from the operating system
InitSim ==
    /\ rng = SeedState(NoSeed)
    /\ last = [fn |-> "none"]

InitLS ==
    /\ pc = "idle"
    /\ call = [fn |-> "none"]
    /\ t = 0
    /\ V = <<>>
    /\ coefficients = <<>>
    /\ step = [kind |-> "none"]
    /\ fitLog = <<>>
    /\ result = <<>>

Init == InitSim /\ InitLS

NextSim == SimulateGbm \/ SimulateGbmMulti

SpecSim == Init /\ [][NextSim]_vars

NextLS ==
    \/ Train1DBegin \/ Train1DStep \/ Train1DReturn
    \/ Test1DBegin \/ Test1DStep \/ Test1DReturn
    \/ TrainMultiBegin \/ TrainMultiStep \/ TrainMultiReturn
    \/ EvaluateBegin \/ EvaluateStep \/ EvaluateReturn

\* the engines neither read nor advance the random stream
InitEngines == Init /\ rng.pos = 0

SpecLS == InitEngines /\ [][NextLS]_vars

(***************************************************************************)
(* Vocabulary of the properties.                                           *)
(***************************************************************************)
IsSimulatorCall == last.fn \in {"simulate_gbm", "simulate_gbm_multi"}

Returned == IsSimulatorCall /\ last.outcome = "returned"

\* the parameters the contract of the simulators calls invalid
NotPositiveInteger(c) == ~(c.isint /\ c.val > 0)

GbmArgsInvalid(a) ==
    \/ a.S0 <= 0
    \/ a.T <= 0
    \/ a.sigma < 0
    \/ NotPositiveInteger(a.M)
    \/ NotPositiveInteger(a.I)

MultiArgsInvalid(a) ==
    \/ \E d \in 1 .. Len(a.initial_prices) : a.initial_prices[d] <= 0
    \/ a.time_horizon <= 0
    \/ \E d \in 1 .. Len(a.sigma) : a.sigma[d] < 0
    \/ NotPositiveInteger(a.num_paths)
    \/ Len(a.sigma) # a.dimension
    \/ Len(a.initial_prices) # a.dimension
    \/ (~a.dividend_rates.scalar /\ a.dividend_rates.len # a.dimension)

ValidArgs ==
    IF last.fn = "simulate_gbm"
    THEN ~GbmArgsInvalid(last.args)
    ELSE ~MultiArgsInvalid(last.args)

\* the path matrix the last call's function returns for its arguments when the
\* stream is in state s as the call begins
MatrixFrom(s) ==
    IF last.fn = "simulate_gbm"
    THEN GbmCall(last.args, s).paths
    ELSE MultiCall(last.args, s).paths

SingleAsset == call.fn \in {"longstaff_schwartz_train", "longstaff_schwartz_test"}

IsTrain == call.fn \in {"longstaff_schwartz_train", "longstaff_schwartz_train_multi"}

IsEvaluate == call.fn \in {"longstaff_schwartz_test", "longstaff_schwartz_evaluate"}

\* M and I of the matrix of the current call, and its price on path i at date d
NumDates == IF SingleAsset THEN Len(call.S) - 1 ELSE Len(call.S[1]) - 1

NumPaths == IF SingleAsset THEN Len(call.S[1]) ELSE Len(call.S)

PriceAt(d, i) == IF SingleAsset THEN call.S[d + 1][i] ELSE call.S[i][d + 1]

\* the last loop iteration was one of the running (or just finished) train / evaluate
AfterTrainStep == IsTrain /\ pc \in {"train", "trained"} /\ step.kind = "train"

AfterEvaluateStep == IsEvaluate /\ pc \in {"evaluate", "priced"} /\ step.kind = "evaluate"

AfterFittedStep == (AfterTrainStep \/ AfterEvaluateStep) /\ step.entry # NoFit

\* path i was exercised in the last iteration: payoff > continuation
Exercised(i) == RLess(step.continuation[i], RInt(step.exercise[i]))

(***************************************************************************)
(* C1: two calls of one simulator with identical parameters and the same   *)
(* supplied seed (0 included) return identical path matrices, whatever the *)
(* stream state the earlier calls left.                                    *)
(***************************************************************************)
C1_SeedReproducible ==
    [][(/\ Returned /\ ValidArgs
        /\ Returned'
        /\ last'.fn = last.fn
        /\ last'.args = last.args
        /\ last.args.seed # NoSeed)
       => last'.paths = last.paths]_vars

(***************************************************************************)
(* C4: both simulators reject with the invalid-parameter error, producing  *)
(* no path, a non-positive initial price, a non-positive maturity, a       *)
(* negative volatility, a date or path count that is not a positive        *)
(* integer, and per-asset arrays whose length is not the dimension: a call *)
(* that did not end in that error had none of these, and one that ended in *)
(* it produced no path.                                                    *)
(***************************************************************************)
C4_InvalidRejected ==
    /\ (IsSimulatorCall /\ last.outcome = "ValueError") => last.paths = <<>>
    /\ (last.fn = "simulate_gbm" /\ last.outcome # "ValueError")
          => ~GbmArgsInvalid(last.args)
    /\ (last.fn = "simulate_gbm_multi" /\ last.outcome # "ValueError")
          => ~MultiArgsInvalid(last.args)

(***************************************************************************)
(* C6: a simulator call without a seed returns a matrix that does not      *)
(* depend on the stream state the earlier calls left behind.               *)
(***************************************************************************)
C6_UnseededIndependent ==
    [][(/\ Returned
        /\ Returned' /\ ValidArgs'
        /\ last'.args.seed = NoSeed)
       => \A s \in RngStates : MatrixFrom(s)' = last'.paths]_vars

(***************************************************************************)
(* C10: a returned matrix has M+1 dates, holds the initial price at date 0 *)
(* on every path, and the step its paths were generated with is the        *)
(* dt = maturity / M that train and evaluate derive from its shape.        *)
(***************************************************************************)
C10_DateGrid ==
    /\ (Returned /\ ValidArgs /\ last.fn = "simulate_gbm") =>
          LET M == Len(last.paths) - 1
          IN  /\ M = last.args.M.val
              /\ \A i \in 1 .. last.args.I.val : last.paths[1][i] = last.args.S0
              /\ M >= 1
              /\ last.dt = TrainDt(last.args.T, M)
    /\ (Returned /\ ValidArgs /\ last.fn = "simulate_gbm_multi") =>
          LET M == Len(last.paths[1][1]) - 1
          IN  /\ \A p \in 1 .. Len(last.paths) : \A d \in 1 .. last.args.dimension :
                    last.paths[p][d][1] = last.args.initial_prices[d]
              /\ M >= 1
              /\ last.dt = TrainDt(last.args.time_horizon, M)

(***************************************************************************)
(* C2: evaluate, given a coefficient series whose length is not M-1        *)
(* (shorter or longer), raises the mismatch error before any date is       *)
(* processed and returns no price.                                         *)
(***************************************************************************)
C2_MismatchRejected ==
    (IsEvaluate /\ Len(call.coefficients) # NumDates - 1)
       => /\ pc = "raised"
          /\ result = "ValueError"
          /\ step.kind # "evaluate"

C2_Witness ==
    /\ call.fn = "longstaff_schwartz_evaluate"
    /\ NumDates = MaxDates - 1
    /\ Len(call.coefficients) = NumDates
    /\ pc = "raised"

C2_WitnessShort ==
    /\ call.fn = "longstaff_schwartz_test"
    /\ Len(call.coefficients) < NumDates - 1
    /\ pc = "raised"

(***************************************************************************)
(* C3: train returns a series of length exactly M-1: each interior date    *)
(* M-1..1 contributes exactly one entry, a coefficient vector of           *)
(* degree+1 values or the no-fit marker.                                   *)
(***************************************************************************)
C3_SeriesLength ==
    (IsTrain /\ pc = "trained")
       => /\ Len(result) = NumDates - 1
          /\ Len(fitLog) = NumDates - 1
          /\ \A k \in 1 .. Len(fitLog) : fitLog[k].date = NumDates - k
          /\ \A k \in 1 .. Len(result) :
                result[k] = NoFit \/ Len(result[k]) = call.degree + 1

C3_Witness ==
    /\ IsTrain /\ pc = "trained"
    /\ NumDates = MaxDates
    /\ call.degree = 1
    /\ \E k \in 1 .. Len(result) : result[k] = NoFit
    /\ \E k \in 1 .. Len(result) : result[k] # NoFit

(***************************************************************************)
(* C5: in train a date gets the no-fit marker iff no path has a basis      *)
(* price above K at that date, and such a date leaves the value vector as  *)
(* it was; in evaluate a no-fit entry leaves the value vector as it was.   *)
(***************************************************************************)
C5_NoFitFrame ==
    /\ AfterTrainStep =>
          /\ (step.entry = NoFit)
                <=> (\A i \in 1 .. NumPaths : PriceAt(step.date, i) <= call.K)
          /\ (step.entry = NoFit) => V = step.held
    /\ AfterEvaluateStep =>
          ((step.entry = NoFit) => V = step.held)

C5_Witness ==
    /\ AfterTrainStep
    /\ step.entry = NoFit
    /\ \E i \in 1 .. NumPaths : PriceAt(step.date, i) = call.K /\ V[i] > 0

C5_WitnessEvaluate ==
    /\ AfterEvaluateStep
    /\ step.entry = NoFit
    /\ \E i \in 1 .. NumPaths : V[i] > 0 /\ PriceAt(step.date, i) > call.K

(***************************************************************************)
(* C7: in train, at a date with a non-empty in-the-money subset, a path    *)
(* that is not exercised leaves the step holding its value from the later  *)
(* date multiplied by the one-step discount exp(-r*dt).                    *)
(***************************************************************************)
C7_HeldIsDiscounted ==
    (AfterTrainStep /\ step.entry # NoFit)
       => \A i \in 1 .. NumPaths :
             ~Exercised(i)
                => RInt(V[i]) = RMul(RInt(step.held[i]),
                                     Discount(call.r, TrainDt(call.T, NumDates)))

(***************************************************************************)
(* C8: the series train returns is chronological: its entry t-1 (0-based)  *)
(* is what train recorded while processing date t; evaluate applies entry  *)
(* t-1 at date t.                                                          *)
(***************************************************************************)
C8_Chronological ==
    /\ (IsTrain /\ pc = "trained") =>
          \A k \in 1 .. Len(fitLog) :
             /\ fitLog[k].date - 1 < Len(result)
             /\ At0(result, fitLog[k].date - 1) = fitLog[k].entry
    /\ AfterEvaluateStep =>
          /\ step.entry = At0(call.coefficients, step.date - 1)
          /\ call.trained =>
                \A k \in 1 .. Len(fitLog) :
                   fitLog[k].date = step.date => step.entry = fitLog[k].entry

C8_Witness ==
    /\ AfterEvaluateStep
    /\ call.trained
    /\ NumDates = MaxDates
    /\ step.date = 1
    /\ At0(call.coefficients, 0) # At0(call.coefficients, NumDates - 2)

(***************************************************************************)
(* C9: in train and in evaluate, at a date with a fitted polynomial, a     *)
(* path's held value is replaced by the exercise payoff only when          *)
(* payoff > continuation strictly; on a tie the path keeps its held value. *)
(***************************************************************************)
C9_StrictExercise ==
    AfterFittedStep
       => \A i \in 1 .. NumPaths :
             /\ V[i] # step.held[i] => Exercised(i)
             /\ RInt(step.exercise[i]) = step.continuation[i] => V[i] = step.held[i]

C9_Witness ==
    /\ AfterFittedStep
    /\ step.kind = "train"
    /\ \E i \in 1 .. NumPaths :
          /\ RInt(step.exercise[i]) = step.continuation[i]
          /\ step.exercise[i] # step.held[i]

C9_WitnessEvaluate ==
    /\ AfterFittedStep
    /\ step.kind = "evaluate"
    /\ \E i \in 1 .. NumPaths :
          /\ RInt(step.exercise[i]) = step.continuation[i]
          /\ step.exercise[i] # step.held[i]

(***************************************************************************)
(* C11: in longstaff_schwartz_test / longstaff_schwartz_evaluate, with any *)
(* coefficient series of the right length, an iteration that applies a     *)
(* fitted polynomial leaves the held value of every path that is at or     *)
(* below the strike at that date (basis price <= K, payoff 0) as it was:   *)
(* only in-the-money paths are replaced, so a positive held value is never *)
(* overwritten by a zero payoff.                                           *)
(***************************************************************************)
C11_OnlyInTheMoneyReplaced ==
    (AfterEvaluateStep /\ step.entry # NoFit) =>
        \A i \in 1 .. NumPaths :
            PriceAt(step.date, i) <= call.K => V[i] = step.held[i]

(***************************************************************************)
(* C12: longstaff_schwartz_test / longstaff_schwartz_evaluate run on the   *)
(* very matrix train was given, with the series train returned, retraces   *)
(* train: after every date M-1 .. 1 its value vector is the one train had  *)
(* after that date (it skips exactly the dates train recorded as no-fit    *)
(* and starts each date from the vector train started it from), and the    *)
(* price it returns is the mean of train's final value vector times        *)
(* exp(-r * dt).                                                           *)
(***************************************************************************)
\* train's value vector when its loop ended: the one after its last iteration, or
\* the terminal payoff when M = 1 and the loop has no iteration
TrainFinalValue ==
    IF fitLog = <<>>
    THEN [i \in 1 .. NumPaths |-> Max(PriceAt(NumDates, i) - call.K, 0)]
    ELSE fitLog[Len(fitLog)].value

C12_EvaluateRetracesTrain ==
    (IsEvaluate /\ call.trained) =>
        /\ AfterEvaluateStep =>
              /\ \E k \in 1 .. Len(fitLog) : fitLog[k].date = step.date
              /\ \A k \in 1 .. Len(fitLog) :
                    fitLog[k].date = step.date =>
                        /\ (step.entry = NoFit) <=> (fitLog[k].entry = NoFit)
                        /\ step.held = fitLog[k].held
                        /\ V = fitLog[k].value
        /\ pc = "priced" =>
              result = RMul(Rat(SumSeq(TrainFinalValue), NumPaths),
                            Discount(call.r, TrainDt(call.T, NumDates)))

\* the retraced training run had MaxDates dates, a no-fit date and a date at which
\* an exercise changed a held value
C12_Witness ==
    /\ IsEvaluate
    /\ call.trained
    /\ pc = "priced"
    /\ NumDates = MaxDates
    /\ \E k \in 1 .. Len(fitLog) : fitLog[k].entry = NoFit
    /\ \E k \in 1 .. Len(fitLog) : fitLog[k].value # fitLog[k].held

(***************************************************************************)
(* C13: in train and in evaluate, after the terminal initialisation and    *)
(* after each processed date (M-1 down to 1), the held value of every path *)
(* is that path's own call payoff max(basis price - K, 0) at one date s    *)
(* between the last processed date and M; so no held value is negative and *)
(* the returned price is not negative.                                     *)
(***************************************************************************)
\* a call is running or has returned; t + 1 is the last date it processed
\* (M when the loop has not run yet)
InValueLoop == (IsTrain \/ IsEvaluate) /\ pc \in {"train", "trained", "evaluate", "priced"}

PayoffAt(s, i) == Max(PriceAt(s, i) - call.K, 0)

C13_HeldIsPayoff ==
    InValueLoop =>
        /\ \A i \in 1 .. NumPaths :
              /\ \E s \in (t + 1) .. NumDates : V[i] = PayoffAt(s, i)
              /\ V[i] >= 0
        /\ (IsEvaluate /\ pc = "priced") => result[1] >= 0

\* train ended with a path holding a positive payoff of an interior date that
\* differs from its terminal payoff
C13_Witness ==
    /\ IsTrain
    /\ pc = "trained"
    /\ NumDates = MaxDates
    /\ \E i \in 1 .. NumPaths :
          /\ V[i] > 0
          /\ V[i] # PayoffAt(NumDates, i)

\* the same in evaluate, with a series of the caller's
C13_WitnessEvaluate ==
    /\ IsEvaluate
    /\ ~call.trained
    /\ pc = "priced"
    /\ \E i \in 1 .. NumPaths :
          /\ V[i] > 0
          /\ V[i] # PayoffAt(NumDates, i)
          /\ result[1] > 0

====
